---- MODULE Spec2Model ----
(***************************************************************************)
(* Model of the RuyiSDK venv helpers:                                      *)
(*   - detectVenv()            src/src/features/venv/DetectforVenv.ts      *)
(*   - the ruyi.venv.clean command   src/src/commands/venv/clean.ts        *)
(*                                                                         *)
(* Strings are sequences of one-character strings, so that split, includes *)
(* startsWith, trim and the template literals are computed, not assumed.   *)
(* Paths are relative to the workspace folder: <<>> is the workspace root. *)
(***************************************************************************)
EXTENDS Integers, Sequences, FiniteSets, TLC

VARIABLES
    dirs,               \* the disk: directory path |-> its listing (sequence of dirents)
    files,              \* the disk: file path |-> its text
    pc,                 \* position of detectVenv
    subdirectories,     \* DetectforVenv.ts:27
    subSubdirectories,  \* DetectforVenv.ts:31 (accumulated by flatMap)
    allDirsToCheck,     \* DetectforVenv.ts:43
    idx,                \* index of the flatMap callback / of the for-of loop
    foundVenvs,         \* DetectforVenv.ts:22
    result,             \* what the caller of detectVenv received
    warnings,           \* console.warn lines, in order
    errors,             \* console.error lines, in order
    fsCalls,            \* every fs call detectVenv made: [op, path]
    cpc,                \* position of the ruyi.venv.clean handler
    pickedVenv,         \* clean.ts:22
    venvPath,           \* clean.ts:28
    currentVenv,        \* manageTerminal.currentVenv (clean.ts:16)
    confirm,            \* clean.ts:34
    shown,              \* messages shown by the clean handler, in order
    asked,              \* number of confirmation dialogs opened
    deletions,          \* every fs.delete issued, with what held when it was issued
    guardSaw,           \* the value of currentVenv read at clean.ts:29
    runs                \* number of invocations of ruyi.venv.clean so far

scanVars == <<pc, subdirectories, subSubdirectories, allDirsToCheck, idx,
              foundVenvs, result, warnings, errors, fsCalls>>
diskVars == <<dirs, files>>
cleanVars == <<cpc, pickedVenv, venvPath, currentVenv, confirm, shown, asked,
               deletions, guardSaw, runs>>
vars == <<dirs, files, pc, subdirectories, subSubdirectories, allDirsToCheck,
          idx, foundVenvs, result, warnings, errors, fsCalls, cpc, pickedVenv,
          venvPath, currentVenv, confirm, shown, asked, deletions, guardSaw,
          runs>>

----------------------------------------------------------------------------
(* Bounds *)

\* files and directories created in the workspace before a scan
MaxEntries == 2
\* invocations of the clean command in one behaviour
MaxRuns == 2
\* lines of a ruyi-activate file whose label is parsed
MaxLines == 2

----------------------------------------------------------------------------
(* Characters and strings *)

NUL == "NUL"    \* stands for the one character '\0'
SLASH == "/"
Whitespace == {" ", "\t", "\n", "\r"}

\* s.substring(i - 1) of JavaScript (1-based i here)
Substring(s, i) == SubSeq(s, i, Len(s))

OccursAt(s, p, i) ==
    /\ i >= 1
    /\ i + Len(p) - 1 <= Len(s)
    /\ \A j \in 1..Len(p) : s[i + j - 1] = p[j]

\* String.prototype.includes
includes(s, p) == \E i \in 1..(Len(s) + 1) : OccursAt(s, p, i)

\* String.prototype.startsWith
startsWith(s, p) == OccursAt(s, p, 1)

\* index of the first occurrence of character c in s, 0 when there is none
IndexOf(s, c) ==
    IF \E i \in 1..Len(s) : s[i] = c
    THEN CHOOSE i \in 1..Len(s) : s[i] = c /\ \A j \in 1..(i - 1) : s[j] # c
    ELSE 0

\* String.prototype.split with a one-character separator
RECURSIVE split(_, _)
split(s, c) ==
    LET i == IndexOf(s, c)
    IN  IF i = 0 THEN <<s>>
        ELSE <<SubSeq(s, 1, i - 1)>> \o split(SubSeq(s, i + 1, Len(s)), c)

\* String.prototype.trim
RECURSIVE trimStart(_)
trimStart(s) ==
    IF s # <<>> /\ Head(s) \in Whitespace THEN trimStart(Tail(s)) ELSE s

RECURSIVE trimEnd(_)
trimEnd(s) ==
    IF s # <<>> /\ s[Len(s)] \in Whitespace
    THEN trimEnd(SubSeq(s, 1, Len(s) - 1)) ELSE s

trim(s) == trimEnd(trimStart(s))

\* Array.prototype.find: the first element satisfying Test, <<>> standing
\* for undefined (an empty line is falsy at DetectforVenv.ts:67 just the same)
RECURSIVE find(_, _)
find(lines, key) ==
    IF lines = <<>> THEN <<>>
    ELSE IF includes(Head(lines), key) THEN Head(lines)
    ELSE find(Tail(lines), key)

----------------------------------------------------------------------------
(* The disk *)

BIN == <<"b", "i", "n">>
ACTIVATE == <<"r", "u", "y", "i", "-", "a", "c", "t", "i", "v", "a", "t", "e">>
KEY == <<"R", "U", "Y", "I", "_", "V", "E", "N", "V", "_",
         "P", "R", "O", "M", "P", "T", "=">>

\* names a directory listing can hold besides bin and ruyi-activate: readdir
\* never yields "", ".", "..", nor a name with '/' or '\0' in it
Names == { <<"a">>, <<".", "b">>, <<"c", ".", ".">> }

\* texts of a ruyi-activate file written before a scan
ScanContents == { KEY \o <<"v", "\n">>, <<"x", "\n">> }

\* path.join for the paths that occur: no segment is "." or "..", so that
\* normalisation leaves the concatenation alone; <<>> is the workspace folder
pathJoin(a, b) == IF a = <<>> THEN b ELSE a \o <<SLASH>> \o b

Depth(p) == IF p = <<>> THEN 0 ELSE Len(split(p, SLASH))

EntryNames(listing) == {listing[i].name : i \in 1..Len(listing)}

\* the entries created by Mkdir and Touch
UserEntries ==
    {p \in (DOMAIN dirs \cup DOMAIN files) \ {<<>>} :
        LET segs == split(p, SLASH) IN segs[Len(segs)] \in Names}

Mkdir(parent, name) ==
    /\ pc = "idle"
    /\ Cardinality(UserEntries) < MaxEntries
    /\ parent \in DOMAIN dirs
    /\ Depth(parent) <= 1
    /\ \/ parent = <<>>
       \/ LET segs == split(parent, SLASH) IN segs[Len(segs)] \in Names
    /\ name \notin EntryNames(dirs[parent])
    /\ dirs' = [p \in DOMAIN dirs \cup {pathJoin(parent, name)} |->
                  IF p = pathJoin(parent, name) THEN <<>>
                  ELSE IF p = parent
                       THEN Append(dirs[p], [name |-> name, isDir |-> TRUE])
                       ELSE dirs[p]]
    /\ UNCHANGED <<files, scanVars, cleanVars>>

Touch(parent, name) ==
    /\ pc = "idle"
    /\ Cardinality(UserEntries) < MaxEntries
    /\ parent \in DOMAIN dirs
    /\ Depth(parent) <= 1
    /\ \/ parent = <<>>
       \/ parent \in Names
    /\ name \notin EntryNames(dirs[parent])
    /\ dirs' = [dirs EXCEPT ![parent] = Append(@, [name |-> name, isDir |-> FALSE])]
    /\ files' = [p \in DOMAIN files \cup {pathJoin(parent, name)} |->
                   IF p = pathJoin(parent, name) THEN <<>> ELSE files[p]]
    /\ UNCHANGED <<scanVars, cleanVars>>

\* what `ruyi venv` leaves behind: <dir>/bin/ruyi-activate
MakeVenv(dir, content) ==
    /\ pc = "idle"
    /\ dir \in DOMAIN dirs
    /\ dir # <<>>
    /\ LET segs == split(dir, SLASH) IN segs[Len(segs)] \in Names
    /\ BIN \notin EntryNames(dirs[dir])
    /\ LET bin == pathJoin(dir, BIN)
       IN  /\ dirs' = [p \in DOMAIN dirs \cup {bin} |->
                         IF p = bin THEN <<[name |-> ACTIVATE, isDir |-> FALSE]>>
                         ELSE IF p = dir
                              THEN Append(dirs[p], [name |-> BIN, isDir |-> TRUE])
                              ELSE dirs[p]]
           /\ files' = [p \in DOMAIN files \cup {pathJoin(bin, ACTIVATE)} |->
                          IF p = pathJoin(bin, ACTIVATE) THEN content ELSE files[p]]
    /\ UNCHANGED <<scanVars, cleanVars>>

\* fs.existsSync
existsSync(p) == p \in DOMAIN dirs \/ p \in DOMAIN files

----------------------------------------------------------------------------
(* detectVenv *)

\* .filter(dirent => dirent.isDirectory()).map(dirent => dirent.name)
RECURSIVE DirectoryNames(_)
DirectoryNames(listing) ==
    IF listing = <<>> THEN <<>>
    ELSE (IF Head(listing).isDir THEN <<Head(listing).name>> ELSE <<>>)
         \o DirectoryNames(Tail(listing))

\* a scan that descends one level further
ListChildrenDeeper(subdir) ==
    LET names == DirectoryNames(dirs[pathJoin(<<>>, subdir)])
        kids == [i \in 1..Len(names) |-> subdir \o <<SLASH>> \o names[i]]
        below(i) == LET more == DirectoryNames(dirs[kids[i]])
                    IN  [j \in 1..Len(more) |-> kids[i] \o <<SLASH>> \o more[j]]
        RECURSIVE flat(_)
        flat(i) == IF i > Len(kids) THEN <<>> ELSE below(i) \o flat(i + 1)
    IN  kids \o flat(1)

\* the value the flatMap callback returns for subdir when readdirSync succeeds
ListChildren(subdir) ==
    LET names == DirectoryNames(dirs[pathJoin(<<>>, subdir)])
    IN  [i \in 1..Len(names) |-> subdir \o <<SLASH>> \o names[i]]

\* a safety check that forgets the '..' test
isPathSafeNoDotDot(pathSegment) ==
    /\ pathSegment # <<>>
    /\ ~includes(pathSegment, <<NUL>>)
    /\ pathSegment # <<".">>
    /\ ~startsWith(pathSegment, <<SLASH>>)

isPathSafe(pathSegment) ==
    /\ pathSegment # <<>>
    /\ ~includes(pathSegment, <<".", ".">>)
    /\ ~includes(pathSegment, <<NUL>>)
    /\ pathSegment # <<".">>
    /\ ~startsWith(pathSegment, <<SLASH>>)

\* segments.every(isPathSafe)
everySafe(dir) ==
    LET segments == split(dir, SLASH)
    IN  \A i \in 1..Len(segments) : isPathSafe(segments[i])

\* a marker looked for in the directory itself, not in its bin
activatePathNoBin(dir) == pathJoin(pathJoin(<<>>, dir), ACTIVATE)

activatePathOf(dir) == pathJoin(pathJoin(pathJoin(<<>>, dir), BIN), ACTIVATE)

\* activateContent.split('\n').find(line => line.includes('RUYI_VENV_PROMPT='))
promptLineOf(activateContent) == find(split(activateContent, "\n"), KEY)

\* promptLine.split('=')[1].trim()
labelOf(promptLine) == trim(split(promptLine, "=")[2])

\* a detectVenv without its outer try/catch
NoTryCatch == FALSE

\* the try block of lines 24-72 is inside a catch (lines 73-75)
TryCatches == TRUE

\* an exception e raised inside the try block
Throw(e) ==
    IF TryCatches
    THEN /\ errors' = Append(errors, e)
         /\ pc' = "return"
    ELSE /\ pc' = "propagated"
         /\ UNCHANGED errors

\* line 25: getWorkspaceFolderPath() returns, or throws when no folder is open
GetWorkspaceOk ==
    /\ pc = "idle"
    /\ pc' = "readRoot"
    /\ UNCHANGED <<diskVars, subdirectories, subSubdirectories, allDirsToCheck,
                   idx, foundVenvs, result, warnings, errors, fsCalls, cleanVars>>

GetWorkspaceThrows ==
    /\ pc = "idle"
    /\ Throw([what |-> "workspace", path |-> <<>>])
    /\ UNCHANGED <<diskVars, subdirectories, subSubdirectories, allDirsToCheck,
                   idx, foundVenvs, result, warnings, fsCalls, cleanVars>>

\* lines 27-29
ReadRootOk ==
    /\ pc = "readRoot"
    /\ fsCalls' = fsCalls \cup {[op |-> "readdir", path |-> <<>>]}
    /\ subdirectories' = DirectoryNames(dirs[<<>>])
    /\ subSubdirectories' = <<>>
    /\ idx' = 1
    /\ pc' = "flatMap"
    /\ UNCHANGED <<diskVars, allDirsToCheck, foundVenvs, result, warnings,
                   errors, cleanVars>>

ReadRootThrows ==
    /\ pc = "readRoot"
    /\ fsCalls' = fsCalls \cup {[op |-> "readdir", path |-> <<>>]}
    /\ Throw([what |-> "readdir", path |-> <<>>])
    /\ UNCHANGED <<diskVars, subdirectories, subSubdirectories, allDirsToCheck,
                   idx, foundVenvs, result, warnings, cleanVars>>

\* lines 31-37: one call of the flatMap callback, readdirSync succeeding
ReadSubdirOk ==
    /\ pc = "flatMap"
    /\ idx <= Len(subdirectories)
    /\ LET subdir == subdirectories[idx]
       IN  /\ fsCalls' = fsCalls \cup
                  {[op |-> "readdir", path |-> pathJoin(<<>>, subdir)]}
           /\ subSubdirectories' = subSubdirectories \o ListChildren(subdir)
    /\ idx' = idx + 1
    /\ UNCHANGED <<diskVars, pc, subdirectories, allDirsToCheck, foundVenvs,
                   result, warnings, errors, cleanVars>>

\* lines 38-41: readdirSync throws inside the callback
ReadSubdirThrows ==
    /\ pc = "flatMap"
    /\ idx <= Len(subdirectories)
    /\ LET subdir == subdirectories[idx]
       IN  /\ fsCalls' = fsCalls \cup
                  {[op |-> "readdir", path |-> pathJoin(<<>>, subdir)]}
           /\ warnings' = Append(warnings, [kind |-> "read", path |-> subdir])
    /\ idx' = idx + 1
    /\ UNCHANGED <<diskVars, pc, subdirectories, subSubdirectories,
                   allDirsToCheck, foundVenvs, result, errors, cleanVars>>

\* the two lists spread in the other order
spreadSubFirst(subdirs, subSubdirs) == subSubdirs \o subdirs

\* [...subdirectories, ...subSubdirectories]
spread(subdirs, subSubdirs) == subdirs \o subSubdirs

\* line 43
BuildAllDirs ==
    /\ pc = "flatMap"
    /\ idx > Len(subdirectories)
    /\ allDirsToCheck' = spread(subdirectories, subSubdirectories)
    /\ idx' = 1
    /\ pc' = "loop"
    /\ UNCHANGED <<diskVars, subdirectories, subSubdirectories, foundVenvs,
                   result, warnings, errors, fsCalls, cleanVars>>

\* lines 54-58
SkipUnsafe ==
    /\ pc = "loop"
    /\ idx <= Len(allDirsToCheck)
    /\ ~everySafe(allDirsToCheck[idx])
    /\ warnings' = Append(warnings, [kind |-> "unsafe", path |-> allDirsToCheck[idx]])
    /\ idx' = idx + 1
    /\ UNCHANGED <<diskVars, pc, subdirectories, subSubdirectories,
                   allDirsToCheck, foundVenvs, result, errors, fsCalls, cleanVars>>

\* line 62, existsSync false
NoMarker ==
    /\ pc = "loop"
    /\ idx <= Len(allDirsToCheck)
    /\ everySafe(allDirsToCheck[idx])
    /\ ~existsSync(activatePathOf(allDirsToCheck[idx]))
    /\ fsCalls' = fsCalls \cup
           {[op |-> "exists", path |-> activatePathOf(allDirsToCheck[idx])]}
    /\ idx' = idx + 1
    /\ UNCHANGED <<diskVars, pc, subdirectories, subSubdirectories,
                   allDirsToCheck, foundVenvs, result, warnings, errors, cleanVars>>

\* lines 62-69, readFileSync succeeding
ReadMarkerOk ==
    /\ pc = "loop"
    /\ idx <= Len(allDirsToCheck)
    /\ everySafe(allDirsToCheck[idx])
    /\ existsSync(activatePathOf(allDirsToCheck[idx]))
    /\ activatePathOf(allDirsToCheck[idx]) \in DOMAIN files
    /\ LET dir == allDirsToCheck[idx]
           promptLine == promptLineOf(files[activatePathOf(dir)])
       IN  /\ fsCalls' = fsCalls \cup
                  {[op |-> "exists", path |-> activatePathOf(dir)],
                   [op |-> "readFile", path |-> activatePathOf(dir)]}
           /\ foundVenvs' = IF promptLine # <<>>
                            THEN Append(foundVenvs, <<dir, labelOf(promptLine)>>)
                            ELSE foundVenvs
    /\ idx' = idx + 1
    /\ UNCHANGED <<diskVars, pc, subdirectories, subSubdirectories,
                   allDirsToCheck, result, warnings, errors, cleanVars>>

\* line 64, readFileSync throws (EACCES, EISDIR, EIO ...)
ReadMarkerThrows ==
    /\ pc = "loop"
    /\ idx <= Len(allDirsToCheck)
    /\ everySafe(allDirsToCheck[idx])
    /\ existsSync(activatePathOf(allDirsToCheck[idx]))
    /\ fsCalls' = fsCalls \cup
           {[op |-> "exists", path |-> activatePathOf(allDirsToCheck[idx])],
            [op |-> "readFile", path |-> activatePathOf(allDirsToCheck[idx])]}
    /\ Throw([what |-> "readFile", path |-> allDirsToCheck[idx]])
    /\ UNCHANGED <<diskVars, subdirectories, subSubdirectories, allDirsToCheck,
                   idx, foundVenvs, result, warnings, cleanVars>>

\* the for-of loop ends, the try block is left
LoopEnds ==
    /\ pc = "loop"
    /\ idx > Len(allDirsToCheck)
    /\ pc' = "return"
    /\ UNCHANGED <<diskVars, subdirectories, subSubdirectories, allDirsToCheck,
                   idx, foundVenvs, result, warnings, errors, fsCalls, cleanVars>>

\* line 77
Return ==
    /\ pc = "return"
    /\ result' = foundVenvs
    /\ pc' = "done"
    /\ UNCHANGED <<diskVars, subdirectories, subSubdirectories, allDirsToCheck,
                   idx, foundVenvs, warnings, errors, fsCalls, cleanVars>>

----------------------------------------------------------------------------
(* The ruyi.venv.clean command *)

\* rawPath values the ruyi.venv.detect picker can hand back
CleanPaths == { <<"a">>, <<".", "b">> }

\* a guard that compares the raw path, without the './'
venvPathBare(rawPath) == rawPath

\* line 28: `./${pickedVenv.rawPath}`
venvPathOf(rawPath) == <<".", "/">> \o rawPath

\* lines 45-49
absolutePathOf(path) ==
    LET cleanPath == IF startsWith(path, <<".", "/">>) THEN Substring(path, 3)
                     ELSE path
    IN  pathJoin(<<>>, cleanPath)

\* manageTerminal: an environment is activated in the terminal
Activate(rawPath) ==
    /\ currentVenv # <<".", "/">> \o rawPath
    /\ currentVenv' = <<".", "/">> \o rawPath
    /\ UNCHANGED <<diskVars, scanVars, cpc, pickedVenv, venvPath, confirm, shown,
                   asked, deletions, guardSaw, runs>>

\* manageTerminal: the active environment is deactivated
Deactivate ==
    /\ currentVenv # <<>>
    /\ currentVenv' = <<>>
    /\ UNCHANGED <<diskVars, scanVars, cpc, pickedVenv, venvPath, confirm, shown,
                   asked, deletions, guardSaw, runs>>

\* line 20-22: the command is invoked and awaits the picker
Invoke ==
    /\ cpc = "idle"
    /\ runs < MaxRuns
    /\ runs' = runs + 1
    /\ cpc' = "picking"
    /\ pickedVenv' = <<>>
    /\ venvPath' = <<>>
    /\ confirm' = "none"
    /\ guardSaw' = <<>>
    /\ UNCHANGED <<diskVars, scanVars, currentVenv, shown, asked, deletions>>

\* lines 24-26: the picker was dismissed
PickNothing ==
    /\ cpc = "picking"
    /\ cpc' = "idle"
    /\ UNCHANGED <<diskVars, scanVars, pickedVenv, venvPath, currentVenv, confirm,
                   shown, asked, deletions, guardSaw, runs>>

\* lines 28-32: the picked environment is the active one
PickActive(rawPath) ==
    /\ cpc = "picking"
    /\ venvPathOf(rawPath) = currentVenv
    /\ pickedVenv' = rawPath
    /\ venvPath' = venvPathOf(rawPath)
    /\ guardSaw' = currentVenv
    /\ shown' = Append(shown, "active")
    /\ cpc' = "idle"
    /\ UNCHANGED <<diskVars, scanVars, currentVenv, confirm, asked, deletions, runs>>

\* lines 28-38: the guard passes and the modal confirmation opens
PickOther(rawPath) ==
    /\ cpc = "picking"
    /\ venvPathOf(rawPath) # currentVenv
    /\ pickedVenv' = rawPath
    /\ venvPath' = venvPathOf(rawPath)
    /\ guardSaw' = currentVenv
    /\ asked' = asked + 1
    /\ cpc' = "confirming"
    /\ UNCHANGED <<diskVars, scanVars, currentVenv, confirm, shown, deletions, runs>>

\* line 39: the dialog was dismissed
AnswerCancel ==
    /\ cpc = "confirming"
    /\ confirm' = "undefined"
    /\ cpc' = "idle"
    /\ UNCHANGED <<diskVars, scanVars, pickedVenv, venvPath, currentVenv, shown,
                   asked, deletions, guardSaw, runs>>

\* lines 39-51: 'Delete' was answered, fs.stat is awaited
AnswerDelete ==
    /\ cpc = "confirming"
    /\ confirm' = "Delete"
    /\ cpc' = "stat"
    /\ UNCHANGED <<diskVars, scanVars, pickedVenv, venvPath, currentVenv, shown,
                   asked, deletions, guardSaw, runs>>

\* lines 44, 57-63: 'Delete' was answered, getWorkspaceFolderPath throws
AnswerDeleteThrows ==
    /\ cpc = "confirming"
    /\ confirm' = "Delete"
    /\ shown' = Append(shown, "failed")
    /\ cpc' = "idle"
    /\ UNCHANGED <<diskVars, scanVars, pickedVenv, venvPath, currentVenv, asked,
                   deletions, guardSaw, runs>>

\* lines 51-54: fs.stat resolves and fs.delete is issued
StatOk ==
    /\ cpc = "stat"
    /\ deletions' = Append(deletions,
           [uri |-> absolutePathOf(venvPath), rawPath |-> pickedVenv,
            guardSaw |-> guardSaw, confirm |-> confirm, active |-> currentVenv])
    /\ cpc' = "deleting"
    /\ UNCHANGED <<diskVars, scanVars, pickedVenv, venvPath, currentVenv, confirm,
                   shown, asked, guardSaw, runs>>

\* lines 51, 57-63: fs.stat rejects
StatThrows ==
    /\ cpc = "stat"
    /\ shown' = Append(shown, "failed")
    /\ cpc' = "idle"
    /\ UNCHANGED <<diskVars, scanVars, pickedVenv, venvPath, currentVenv, confirm,
                   asked, deletions, guardSaw, runs>>

\* lines 54-55: fs.delete resolves
DeleteOk ==
    /\ cpc = "deleting"
    /\ shown' = Append(shown, "deleted")
    /\ cpc' = "idle"
    /\ UNCHANGED <<diskVars, scanVars, pickedVenv, venvPath, currentVenv, confirm,
                   asked, deletions, guardSaw, runs>>

\* lines 54, 57-63: fs.delete rejects
DeleteThrows ==
    /\ cpc = "deleting"
    /\ shown' = Append(shown, "failed")
    /\ cpc' = "idle"
    /\ UNCHANGED <<diskVars, scanVars, pickedVenv, venvPath, currentVenv, confirm,
                   asked, deletions, guardSaw, runs>>

----------------------------------------------------------------------------
(* Specifications *)

CleanIdle ==
    /\ cpc = "idle"
    /\ pickedVenv = <<>>
    /\ venvPath = <<>>
    /\ currentVenv = <<>>
    /\ confirm = "none"
    /\ shown = <<>>
    /\ asked = 0
    /\ deletions = <<>>
    /\ guardSaw = <<>>
    /\ runs = 0

ScanIdle ==
    /\ pc = "idle"
    /\ subdirectories = <<>>
    /\ subSubdirectories = <<>>
    /\ allDirsToCheck = <<>>
    /\ idx = 0
    /\ foundVenvs = <<>>
    /\ result = <<>>
    /\ warnings = <<>>
    /\ errors = <<>>
    /\ fsCalls = {}

EmptyDisk ==
    /\ dirs = (<<>> :> <<>>)
    /\ files = [p \in {} |-> <<>>]

Init == EmptyDisk /\ ScanIdle /\ CleanIdle

Populate ==
    \/ \E parent \in DOMAIN dirs, name \in Names : Mkdir(parent, name)
    \/ \E parent \in DOMAIN dirs, name \in Names : Touch(parent, name)
    \/ \E dir \in DOMAIN dirs, content \in ScanContents : MakeVenv(dir, content)

Scan ==
    \/ GetWorkspaceOk
    \/ GetWorkspaceThrows
    \/ ReadRootOk
    \/ ReadRootThrows
    \/ ReadSubdirOk
    \/ ReadSubdirThrows
    \/ BuildAllDirs
    \/ SkipUnsafe
    \/ NoMarker
    \/ ReadMarkerOk
    \/ ReadMarkerThrows
    \/ LoopEnds
    \/ Return

Next == Populate \/ Scan

\* a workspace populated entry by entry, then scanned once
Spec == Init /\ [][Next]_vars

\* a workspace of two directories with two subdirectories each, any of the
\* six an environment or not (at most one is not); the subdirectories hold,
\* all or none, one more directory that is an environment
PairsOfNames == {p \in Names \X Names : p[1] # p[2]}

DEEP == <<"a">>
binDirent == [name |-> BIN, isDir |-> TRUE]
deepDirent == [name |-> DEEP, isDir |-> TRUE]

WideDirs(r, c, venvs, deep) ==
    LET top == {r[1], r[2]}
        sub == {r[i] \o <<SLASH>> \o c[i][j] : i \in 1..2, j \in 1..2}
        low == IF deep THEN {pathJoin(d, DEEP) : d \in sub} ELSE {}
        bins == {pathJoin(d, BIN) : d \in venvs \cup low}
        withBin(d, l) == IF d \in venvs \cup low THEN Append(l, binDirent) ELSE l
    IN  [p \in {<<>>} \cup top \cup sub \cup low \cup bins |->
           IF p = <<>>
           THEN <<[name |-> r[1], isDir |-> TRUE], [name |-> r[2], isDir |-> TRUE]>>
           ELSE IF p \in top
           THEN LET i == IF p = r[1] THEN 1 ELSE 2
                IN  withBin(p, <<[name |-> c[i][1], isDir |-> TRUE],
                                 [name |-> c[i][2], isDir |-> TRUE]>>)
           ELSE IF p \in sub
           THEN withBin(p, IF deep THEN <<deepDirent>> ELSE <<>>)
           ELSE IF p \in low THEN <<binDirent>>
           ELSE <<[name |-> ACTIVATE, isDir |-> FALSE]>>]

VenvFiles(venvs, content) ==
    [p \in {activatePathOf(d) : d \in venvs} |-> content]

InitWide ==
    /\ \E r \in PairsOfNames, c \in [1..2 -> PairsOfNames], deep \in BOOLEAN :
          LET sub == {r[i] \o <<SLASH>> \o c[i][j] : i \in 1..2, j \in 1..2}
              all == {r[1], r[2]} \cup sub
              low == IF deep THEN {pathJoin(d, DEEP) : d \in sub} ELSE {}
          IN  \E venvs \in {all} \cup {all \ {d} : d \in all} :
                 /\ dirs = WideDirs(r, c, venvs, deep)
                 /\ files = VenvFiles(venvs \cup low, KEY \o <<"v", "\n">>)
    /\ ScanIdle
    /\ CleanIdle

SpecWide == InitWide /\ [][Scan]_vars

\* one environment whose ruyi-activate holds up to MaxLines lines, scanned once
LabelValues == { <<"v">>, <<" ", "w", "\t">>, <<"v", "=", "w">>, <<>> }
LabelLines ==
    {pre \o KEY \o val : pre \in {<<>>, <<"e", " ">>}, val \in LabelValues}
        \cup { <<"x">> }

RECURSIVE joinLines(_)
joinLines(lines) ==
    IF lines = <<>> THEN <<>>
    ELSE Head(lines) \o <<"\n">> \o joinLines(Tail(lines))

LabelContents ==
    UNION {{joinLines(ls) : ls \in [1..n -> LabelLines]} : n \in 1..MaxLines}

InitLabel ==
    /\ \E name \in Names, content \in LabelContents :
          /\ dirs = [p \in {<<>>, name, pathJoin(name, BIN)} |->
                       IF p = <<>> THEN <<[name |-> name, isDir |-> TRUE]>>
                       ELSE IF p = name THEN <<binDirent>>
                       ELSE <<[name |-> ACTIVATE, isDir |-> FALSE]>>]
          /\ files = VenvFiles({name}, content)
    /\ ScanIdle
    /\ CleanIdle

SpecLabel == InitLabel /\ [][Scan]_vars

Clean ==
    \/ \E rawPath \in CleanPaths : Activate(rawPath)
    \/ Deactivate
    \/ Invoke
    \/ PickNothing
    \/ \E rawPath \in CleanPaths : PickActive(rawPath)
    \/ \E rawPath \in CleanPaths : PickOther(rawPath)
    \/ AnswerCancel
    \/ AnswerDelete
    \/ AnswerDeleteThrows
    \/ StatOk
    \/ StatThrows
    \/ DeleteOk
    \/ DeleteThrows

\* the clean command, interleaved with activations in the terminal
SpecClean == Init /\ [][Clean]_vars

----------------------------------------------------------------------------
(* What the claims speak of, stated on the disk and on the logs *)

Done == pc = "done"

\* directories one and two levels below the workspace folder
Level1 ==
    {dirs[<<>>][i].name : i \in {j \in 1..Len(dirs[<<>>]) : dirs[<<>>][j].isDir}}
Level2 ==
    UNION {{a \o <<SLASH>> \o dirs[a][i].name :
               i \in {j \in 1..Len(dirs[a]) : dirs[a][j].isDir}} : a \in Level1}

Segments(path) == split(path, SLASH)

UnsafeSegment(seg) ==
    \/ seg = <<>>
    \/ seg = <<".">>
    \/ \E i \in 1..(Len(seg) - 1) : seg[i] = "." /\ seg[i + 1] = "."
    \/ \E i \in 1..Len(seg) : seg[i] = NUL
    \/ (seg # <<>> /\ seg[1] = SLASH)

SafePath(path) == \A i \in 1..Len(Segments(path)) : ~UnsafeSegment(Segments(path)[i])

MarkerOf(d) == d \o <<SLASH>> \o BIN \o <<SLASH>> \o ACTIVATE

HasMarker(d) == MarkerOf(d) \in DOMAIN files

KeyLines(text) ==
    LET lines == split(text, "\n")
    IN  {i \in 1..Len(lines) : includes(lines[i], KEY)}

HasPrompt(d) == HasMarker(d) /\ KeyLines(files[MarkerOf(d)]) # {}

\* a safe directory with a readable marker file holding a prompt line
Qualifies(d) == SafePath(d) /\ HasPrompt(d)

Occurrences(list, d) == Cardinality({i \in 1..Len(list) : list[i][1] = d})

Reported(list, d) == Occurrences(list, d) > 0

ListingFailed(d) == \E i \in 1..Len(warnings) :
    warnings[i].kind = "read" /\ warnings[i].path = d

SkippedUnsafe(d) == \E i \in 1..Len(warnings) :
    warnings[i].kind = "unsafe" /\ warnings[i].path = d

ReadThrew(d) == \E i \in 1..Len(errors) :
    errors[i].what = "readFile" /\ errors[i].path = d

RootFailed == \E i \in 1..Len(errors) : errors[i].what \in {"workspace", "readdir"}

NoReadFails == errors = <<>> /\ \A i \in 1..Len(warnings) : warnings[i].kind # "read"

Examined(d) ==
    \/ SkippedUnsafe(d)
    \/ [op |-> "exists", path |-> MarkerOf(d)] \in fsCalls

----------------------------------------------------------------------------
(* Claims *)

\* C1: detectVenv never lets an exception reach its caller: whatever call
\* fails (workspace resolution, root listing, a depth-1 listing, the marker
\* read), the exception is not propagated and the caller receives the list
\* accumulated so far.
ThmC1 ==
    /\ pc # "propagated"
    /\ Done => result = foundVenvs
    /\ Done => \A i \in 1..Len(result) : Len(result[i]) = 2

\* a marker read has thrown after a record was pushed, and the call returned
WitC1 ==
    /\ Done
    /\ errors # <<>>
    /\ errors[1].what = "readFile"
    /\ result # <<>>

\* C2 (as claimed): a failing marker read is isolated to its candidate: when
\* the root was listed, every candidate that is safe and has a readable marker
\* file with a prompt line is in the result, also after another candidate's
\* marker read has thrown.
CexC2 ==
    (Done /\ ~RootFailed) =>
        \A k \in 1..Len(allDirsToCheck) :
            (Qualifies(allDirsToCheck[k]) /\ ~ReadThrew(allDirsToCheck[k]))
                => Reported(result, allDirsToCheck[k])

\* C3: no returned record has an unsafe segment in its relativePath, whatever
\* lies under the candidate; an unsafe candidate is skipped with a warning,
\* raises nothing, and the candidate after it is examined.
ThmC3 ==
    /\ \A i \in 1..Len(foundVenvs) : SafePath(foundVenvs[i][1])
    /\ \A i \in 1..Len(result) : SafePath(result[i][1])
    /\ \A k \in 1..Len(allDirsToCheck) :
          LET d == allDirsToCheck[k]
          IN  /\ (~SafePath(d) /\ pc \in {"loop", "return", "done"} /\ idx > k)
                    => (SkippedUnsafe(d) /\ ~Reported(foundVenvs, d))
              /\ ~SafePath(d) => ~ReadThrew(d)
              /\ (SkippedUnsafe(d) /\ k < Len(allDirsToCheck) /\ Done)
                    => Examined(allDirsToCheck[k + 1])

\* an unsafe directory holding a valid marker was skipped, and a later
\* candidate was reported
WitC3 ==
    /\ Done
    /\ \E k \in 1..Len(allDirsToCheck) :
          /\ ~SafePath(allDirsToCheck[k])
          /\ HasPrompt(allDirsToCheck[k])
          /\ SkippedUnsafe(allDirsToCheck[k])
          /\ \E m \in (k + 1)..Len(allDirsToCheck) : Reported(result, allDirsToCheck[m])

\* C4: every returned relativePath has one or two segments and names a
\* directory one or two levels below the root; only the root and depth-1
\* directories are listed, and only the marker files of depth-1 and depth-2
\* directories are tested or read.
ThmC4 ==
    /\ \A i \in 1..Len(foundVenvs) :
          /\ Len(Segments(foundVenvs[i][1])) \in {1, 2}
          /\ foundVenvs[i][1] \in Level1 \cup Level2
    /\ Done => \A i \in 1..Len(result) : result[i][1] \in Level1 \cup Level2
    /\ \A c \in fsCalls :
          IF c.op = "readdir" THEN c.path \in {<<>>} \cup Level1
          ELSE c.path \in {MarkerOf(d) : d \in Level1 \cup Level2}

\* a directory three levels down holds a valid marker, and a scan that
\* reported something has returned
WitC4 ==
    /\ Done
    /\ result # <<>>
    /\ \E a \in Level2 : \E i \in 1..Len(dirs[a]) :
          /\ dirs[a][i].isDir
          /\ Qualifies(a \o <<SLASH>> \o dirs[a][i].name)

\* C5: when no read fails, a depth-1 or depth-2 directory has exactly one
\* record if it is safe, its bin/ruyi-activate exists and holds a prompt
\* line, and no record otherwise; nothing else is reported.
ThmC5 ==
    (Done /\ NoReadFails) =>
        /\ \A d \in Level1 \cup Level2 :
              Occurrences(result, d) = IF Qualifies(d) THEN 1 ELSE 0
        /\ \A i \in 1..Len(result) : result[i][1] \in Level1 \cup Level2

\* a scan without failures reported one directory and passed over one with a
\* marker lacking the prompt line and one with no marker at all
WitC5 ==
    /\ Done
    /\ NoReadFails
    /\ Len(result) = 1
    /\ \E d \in Level1 \cup Level2 : SafePath(d) /\ HasMarker(d) /\ ~HasPrompt(d)
    /\ \E d \in Level1 \cup Level2 : SafePath(d) /\ ~HasMarker(d)

\* the text of a line after its first '='
AfterFirstEquals(line) == Substring(line, IndexOf(line, "=") + 1)

FirstKeyLine(text) ==
    LET lines == split(text, "\n")
    IN  lines[CHOOSE i \in KeyLines(text) : \A j \in KeyLines(text) : i <= j]

\* C6 (as claimed): the label is the text after the first '=' of the first
\* line holding RUYI_VENV_PROMPT=, trimmed, also when the line holds more than
\* one '='.
CexC6 ==
    \A i \in 1..Len(foundVenvs) :
        foundVenvs[i][2] =
            trim(AfterFirstEquals(FirstKeyLine(files[MarkerOf(foundVenvs[i][1])])))

\* C7 (as claimed): when the listing of a depth-1 directory fails, every valid
\* sibling, and every valid subdirectory of a sibling that was listed, is
\* still in the result (its own marker read not having thrown), and exactly
\* one warning names the unreadable directory.
CexC7 ==
    Done =>
        \A d \in Level1 : ListingFailed(d) =>
            /\ Cardinality({i \in 1..Len(warnings) :
                   warnings[i].kind = "read" /\ warnings[i].path = d}) = 1
            /\ \A s \in Level1 \ {d} :
                  /\ (Qualifies(s) /\ ~ReadThrew(s)) => Reported(result, s)
                  /\ ~ListingFailed(s) =>
                        \A i \in 1..Len(dirs[s]) :
                            (dirs[s][i].isDir
                               /\ Qualifies(s \o <<SLASH>> \o dirs[s][i].name)
                               /\ ~ReadThrew(s \o <<SLASH>> \o dirs[s][i].name))
                            => Reported(result, s \o <<SLASH>> \o dirs[s][i].name)

\* place of a name in a listing
PlaceIn(listing, name) == CHOOSE i \in 1..Len(listing) : listing[i].name = name

\* where a reported path was discovered: <<depth, place of its depth-1
\* directory in the root listing, place of the child in its parent's listing>>
Discovery(path) ==
    LET segs == Segments(path)
    IN  IF Len(segs) = 1 THEN <<1, PlaceIn(dirs[<<>>], segs[1]), 0>>
        ELSE <<2, PlaceIn(dirs[<<>>], segs[1]), PlaceIn(dirs[segs[1]], segs[2])>>

Earlier(x, y) ==
    \/ x[1] < y[1]
    \/ x[1] = y[1] /\ x[2] < y[2]
    \/ x[1] = y[1] /\ x[2] = y[2] /\ x[3] < y[3]

\* C8: the result is in discovery order: depth-1 records first, in the root
\* listing's order, then depth-2 records, parents in the root listing's order
\* and children in their parent's listing order.
ThmC8 ==
    \A i \in 1..Len(foundVenvs) : \A j \in (i + 1)..Len(foundVenvs) :
        Earlier(Discovery(foundVenvs[i][1]), Discovery(foundVenvs[j][1]))

\* all six directories of a wide workspace were reported, the root listing
\* not being in alphabetical order
WitC8 ==
    /\ Done
    /\ Len(result) = 6
    /\ dirs[<<>>][1].name = <<".", "b">>
    /\ dirs[<<>>][2].name = <<"a">>

\* what C9 says of every step that runs the guard on the active environment
RefusesActive ==
    (cpc = "picking" /\ pickedVenv' # <<>>
        /\ <<".", "/">> \o pickedVenv' = currentVenv)
    => /\ cpc' = "idle"
       /\ shown' = Append(shown, "active")
       /\ asked' = asked
       /\ deletions' = deletions

DeletesOnlyConfirmedOthers ==
    /\ \A i \in 1..Len(deletions) :
          /\ <<".", "/">> \o deletions[i].rawPath # deletions[i].guardSaw
          /\ deletions[i].confirm = "Delete"
    /\ cpc \in {"confirming", "stat", "deleting"}
          => <<".", "/">> \o pickedVenv # guardSaw

\* C9: when the picked path with './' before it equals the active path as the
\* guard runs, the invocation shows the error, opens no confirmation and
\* issues no delete; every delete issued comes after a guard that saw another
\* active path and after the answer 'Delete'.
ThmC9 == []DeletesOnlyConfirmedOthers /\ [][RefusesActive]_vars

\* one invocation was refused for the active environment, another deleted
WitC9 ==
    /\ Len(shown) >= 1
    /\ shown[1] = "active"
    /\ asked = 1
    /\ Len(deletions) = 1

\* C10 (as claimed): whenever the recursive delete is issued, the deleted
\* path is not the active environment, in every interleaving.
CexC10 ==
    \A i \in 1..Len(deletions) :
        <<".", "/">> \o deletions[i].rawPath # deletions[i].active

====
